---- MODULE Spec2Model ----
(***************************************************************************)
(* State-machine model of backend/scripts/truthscan_analyzer_video.py and  *)
(* backend/scripts/truthscan_analyzer.py.                                  *)
(*                                                                         *)
(* A run is one of three entries, chosen in Init:                          *)
(*   mode = "call"   a direct call of extract_most_complex_frame with an   *)
(*                   arbitrary video and sample_rate;                      *)
(*   mode = "video"  one execution of truthscan_analyzer_video.py;         *)
(*   mode = "image"  one execution of truthscan_analyzer.py.               *)
(*                                                                         *)
(* Complexity scores are kept as integers: one unit is 1/100 of the        *)
(* source's score, so the weights 0.35, 0.25, 5000 and 0.15 become 35, 25, *)
(* 500000 and 15, and edge density is carried in percent.                  *)
(***************************************************************************)
EXTENDS Integers, Sequences, FiniteSets, TLC

\* ---------------------------------------------------------------- bounds

\* Longest enumerated video stream, in frames.
MaxFrames == 3

\* Largest enumerated sample_rate (besides the script's own default).
MaxStride == 3

\* ------------------------------------------------------------- constants

\* sample_rate=30: the default of extract_most_complex_frame and the value
\* the script passes.
DefaultSampleRate == 30

\* Python's None.
None == [none |-> TRUE]

\* ---------------------------------------------------------------- frames

\* A decoded frame, by the four statistics the scorer reads from it.
Frame(lap, pix, edge, col) ==
    [laplacian_var |-> lap, pixel_var |-> pix, edge_pct |-> edge, color_var |-> col]

\* Uniform gray: no texture, no contrast, no edges, no saturation.
Gray == Frame(0, 0, 0, 0)

\* High-contrast checkerboard.
Checkerboard == Frame(900, 400, 20, 0)

\* Two different frames with the same score (35*5 = 25*7).
Sharp == Frame(5, 0, 0, 0)

Contrast == Frame(0, 7, 0, 0)

FrameSet == {Gray, Sharp, Contrast, Checkerboard}

\* The 90-frame stream of the end-to-end scenario: frame 45 (zero-based) is a
\* checkerboard, every other frame is uniform gray.
Scenario90 == [i \in 1..90 |-> IF i = 46 THEN Checkerboard ELSE Gray]

Streams == UNION {[1..n -> FrameSet] : n \in 0..MaxFrames} \cup {Scenario90}

Strides == 0..MaxStride \cup {DefaultSampleRate}

\* The longest stream handed to the video script, which samples with
\* DefaultSampleRate: of a stream this short only frame 0 is scored.
MaxScriptFrames == 1

VARIABLES
    mode,                  \* "call" | "detect" | "video" | "image"
    pc,                    \* position of the run
    video_exists,          \* os.path.exists(video_path)
    video_openable,        \* whether cv2 can open the file
    video_frames,          \* the frames the stream yields, in order
    sample_rate,           \* argument of extract_most_complex_frame
    extract_status,        \* "not_called" | "running" | "returned" | "raised"
    exc,                   \* the exception extract_most_complex_frame raised
    open_calls,            \* cv2.VideoCapture(video_path) constructions
    cap,                   \* "none" | "closed" | "open" | "released"
    cap_pos,               \* frames the capture has delivered
    read_calls,            \* cap.read() calls
    read_log,              \* zero-based stream positions delivered, in order
    frame_idx,
    max_complexity_score,
    best_frame,
    best_frame_idx,
    scored,                \* frame_idx values whose frame was scored
    frame_file,            \* content of the file at output_path
    argv_given,            \* len(sys.argv) >= 2
    stdout,                \* the JSON objects printed to standard output
    exit_code,             \* "running" | "0" | "1"
    temp_dir,              \* "absent" | "present" | "created" (by this run)
    result,                \* the dict check_image builds and returns
    driver,                \* "none" | "running" | "quit"
    quit_calls,            \* driver.quit() calls
    page,                  \* the page features read by the final parse
    polls,                 \* passes of the polling loop started so far
    last_poll,             \* what the latest pass of the polling loop met
    results_found,         \* the local of that name in _wait_for_results
    image_exists,          \* Path(image_path).exists() for the image script
    attempt,               \* loop variable of _retry_request
    upload_result,
    detection_result,
    moderation_result,
    analysis_result,
    requests,              \* the remote steps invoked, in order
    returns,               \* what each invoked step ended with, in order
    sleeps                 \* the time.sleep() calls: why, and tenths of a second

extractVars ==
    <<video_exists, video_openable, video_frames, sample_rate, extract_status,
      exc, open_calls, cap, cap_pos, read_calls, read_log, frame_idx,
      max_complexity_score, best_frame, best_frame_idx, scored, frame_file>>

mainVars == <<argv_given, stdout, exit_code, temp_dir>>

pollVars == <<polls, last_poll, results_found>>

detectorVars == <<result, driver, quit_calls, page, pollVars>>

apiVars ==
    <<image_exists, attempt, upload_result, detection_result, moderation_result,
      analysis_result, requests, returns, sleeps>>

vars == <<mode, pc, extractVars, mainVars, detectorVars, apiVars>>

\* ------------------------------------------- extract_most_complex_frame

\* Faulty variant of IsSampled: frames counted from 1.
IsSampled_OneBased(idx, rate) == (idx + 1) % rate = 0

\* Faulty variant of IsSampled: the stride is ignored.
IsSampled_Always(idx, rate) == TRUE

\* frame_idx % sample_rate == 0
IsSampled(idx, rate) == idx % rate = 0

\* complexity_score, in 1/100 units.
ComplexityScore(frame) ==
    35 * frame.laplacian_var + 25 * frame.pixel_var
        + 5000 * frame.edge_pct + 15 * frame.color_var

\* Faulty variant of Improves: compares with the initial maximum.
Improves_OverInitial(score, max) == score > 0

\* complexity_score > max_complexity_score
Improves(score, max) == score > max

\* The scan's running state before the first frame.
ScanInit ==
    [max_complexity_score |-> 0, best_frame |-> None, best_frame_idx |-> 0,
     frame_idx |-> 0]

\* Faulty variant of ScanStep: frame_idx += 1 sits inside the sampling branch.
ScanStep_CountsSampledOnly(s, frame, rate) ==
    LET score == ComplexityScore(frame)
        t == IF IsSampled(s.frame_idx, rate) /\ Improves(score, s.max_complexity_score)
             THEN [s EXCEPT !.max_complexity_score = score,
                            !.best_frame = frame,
                            !.best_frame_idx = s.frame_idx]
             ELSE s
    IN  [t EXCEPT !.frame_idx = IF IsSampled(s.frame_idx, rate)
                                THEN s.frame_idx + 1 ELSE s.frame_idx]

\* One iteration of the loop body on a frame that was read (sample_rate > 0).
ScanStep(s, frame, rate) ==
    LET score == ComplexityScore(frame)
        t == IF IsSampled(s.frame_idx, rate) /\ Improves(score, s.max_complexity_score)
             THEN [s EXCEPT !.max_complexity_score = score,
                            !.best_frame = frame,
                            !.best_frame_idx = s.frame_idx]
             ELSE s
    IN  [t EXCEPT !.frame_idx = s.frame_idx + 1]

\* The whole loop over a stream, from running state s.
RECURSIVE ScanFrom(_, _, _)
ScanFrom(s, frames, rate) ==
    IF s.frame_idx >= Len(frames)
    THEN s
    ELSE ScanFrom(ScanStep(s, frames[s.frame_idx + 1], rate), frames, rate)

\* What a call on an opened stream ends with, for sample_rate > 0.
ScanOutcome(frames, rate) ==
    LET s == ScanFrom(ScanInit, frames, rate)
    IN  IF s.best_frame = None
        THEN [status |-> "raised", best_frame_idx |-> 0, best_frame |-> None]
        ELSE [status |-> "returned", best_frame_idx |-> s.best_frame_idx,
              best_frame |-> s.best_frame]

\* Where control goes when extract_most_complex_frame ends.
AfterExtract(raised) ==
    IF mode = "call" THEN "done"
    ELSE IF raised THEN "main_except" ELSE "det_exists"

ExtractRaise(e) ==
    /\ extract_status' = "raised"
    /\ exc' = e
    /\ pc' = AfterExtract(TRUE)

\* if not os.path.exists(video_path): raise FileNotFoundError
ExistsCheck ==
    /\ pc = "extract_exists"
    /\ IF ~video_exists
       THEN /\ ExtractRaise("FileNotFoundError")
       ELSE /\ pc' = "extract_open"
            /\ UNCHANGED <<extract_status, exc>>
    /\ UNCHANGED <<mode, video_exists, video_openable, video_frames, sample_rate,
                   open_calls, cap, cap_pos, read_calls, read_log, frame_idx,
                   max_complexity_score, best_frame, best_frame_idx, scored,
                   frame_file,
                   mainVars, detectorVars, apiVars>>

\* Faulty variant of OpenCapture: cap.isOpened() is not checked.
OpenCapture_NoCheck ==
    /\ pc = "extract_open"
    /\ open_calls' = open_calls + 1
    /\ cap' = IF video_openable THEN "open" ELSE "closed"
    /\ pc' = "extract_loop"
    /\ max_complexity_score' = ScanInit.max_complexity_score
    /\ best_frame' = ScanInit.best_frame
    /\ best_frame_idx' = ScanInit.best_frame_idx
    /\ frame_idx' = ScanInit.frame_idx
    /\ UNCHANGED <<extract_status, exc>>
    /\ UNCHANGED <<mode, video_exists, video_openable, video_frames, sample_rate,
                   cap_pos, read_calls, read_log, scored, frame_file,
                   mainVars, detectorVars, apiVars>>

\* cap = cv2.VideoCapture(video_path); if not cap.isOpened(): raise ValueError;
\* then the initialisation of the scan's locals.
OpenCapture ==
    /\ pc = "extract_open"
    /\ open_calls' = open_calls + 1
    /\ IF ~video_openable
       THEN /\ cap' = "closed"
            /\ ExtractRaise("ValueError: Could not open video file")
            /\ UNCHANGED <<max_complexity_score, best_frame, best_frame_idx,
                           frame_idx>>
       ELSE /\ cap' = "open"
            /\ pc' = "extract_loop"
            /\ max_complexity_score' = ScanInit.max_complexity_score
            /\ best_frame' = ScanInit.best_frame
            /\ best_frame_idx' = ScanInit.best_frame_idx
            /\ frame_idx' = ScanInit.frame_idx
            /\ UNCHANGED <<extract_status, exc>>
    /\ UNCHANGED <<mode, video_exists, video_openable, video_frames, sample_rate,
                   cap_pos, read_calls, read_log, scored, frame_file,
                   mainVars, detectorVars, apiVars>>

\* One pass of `while True`: cap.read(), the break on a failed read, the
\* scoring of a sampled frame and frame_idx += 1.
ReadFrame ==
    /\ pc = "extract_loop"
    /\ read_calls' = read_calls + 1
    /\ IF cap # "open" \/ cap_pos >= Len(video_frames)
       THEN \* ret is False: break
            /\ pc' = "extract_release"
            /\ UNCHANGED <<extract_status, exc, cap_pos, read_log, frame_idx,
                           max_complexity_score, best_frame, best_frame_idx,
                           scored>>
       ELSE /\ cap_pos' = cap_pos + 1
            /\ read_log' = Append(read_log, cap_pos)
            /\ IF sample_rate = 0
               THEN \* frame_idx % 0
                    /\ ExtractRaise("ZeroDivisionError")
                    /\ UNCHANGED <<frame_idx, max_complexity_score, best_frame,
                                   best_frame_idx, scored>>
               ELSE LET s == [max_complexity_score |-> max_complexity_score,
                              best_frame |-> best_frame,
                              best_frame_idx |-> best_frame_idx,
                              frame_idx |-> frame_idx]
                        t == ScanStep(s, video_frames[cap_pos + 1], sample_rate)
                    IN  /\ max_complexity_score' = t.max_complexity_score
                        /\ best_frame' = t.best_frame
                        /\ best_frame_idx' = t.best_frame_idx
                        /\ frame_idx' = t.frame_idx
                        /\ scored' = IF IsSampled(frame_idx, sample_rate)
                                     THEN scored \cup {frame_idx}
                                     ELSE scored
                        /\ pc' = "extract_loop"
                        /\ UNCHANGED <<extract_status, exc>>
    /\ UNCHANGED <<mode, video_exists, video_openable, video_frames, sample_rate,
                   open_calls, cap, frame_file,
                   mainVars, detectorVars, apiVars>>

\* cap.release()
Release ==
    /\ pc = "extract_release"
    /\ cap' = "released"
    /\ pc' = "extract_check"
    /\ UNCHANGED <<mode, video_exists, video_openable, video_frames, sample_rate,
                   extract_status, exc, open_calls, cap_pos, read_calls,
                   read_log, frame_idx, max_complexity_score, best_frame,
                   best_frame_idx, scored, frame_file,
                   mainVars, detectorVars, apiVars>>

\* Faulty variant of CheckBest: an empty scan reopens the stream and scans it
\* once more before giving up.
CheckBest_Retry ==
    /\ pc = "extract_check"
    /\ IF best_frame = None /\ open_calls < 2
       THEN /\ pc' = "extract_open"
            /\ cap_pos' = 0
            /\ UNCHANGED <<extract_status, exc>>
       ELSE /\ UNCHANGED cap_pos
            /\ IF best_frame = None
               THEN ExtractRaise("ValueError: Could not extract any frame from video")
               ELSE /\ pc' = "extract_write"
                    /\ UNCHANGED <<extract_status, exc>>
    /\ UNCHANGED <<mode, video_exists, video_openable, video_frames, sample_rate,
                   open_calls, cap, read_calls, read_log, frame_idx,
                   max_complexity_score, best_frame, best_frame_idx, scored,
                   frame_file,
                   mainVars, detectorVars, apiVars>>

\* if best_frame is None: raise ValueError
CheckBest ==
    /\ pc = "extract_check"
    /\ IF best_frame = None
       THEN ExtractRaise("ValueError: Could not extract any frame from video")
       ELSE /\ pc' = "extract_write"
            /\ UNCHANGED <<extract_status, exc>>
    /\ UNCHANGED <<mode, video_exists, video_openable, video_frames, sample_rate,
                   open_calls, cap, cap_pos, read_calls, read_log, frame_idx,
                   max_complexity_score, best_frame, best_frame_idx, scored,
                   frame_file,
                   mainVars, detectorVars, apiVars>>

\* cv2.imwrite(output_path, best_frame, ...); return output_path
WriteFrame ==
    /\ pc = "extract_write"
    /\ frame_file' = best_frame
    /\ extract_status' = "returned"
    /\ pc' = AfterExtract(FALSE)
    /\ UNCHANGED <<mode, video_exists, video_openable, video_frames, sample_rate,
                   exc, open_calls, cap, cap_pos, read_calls, read_log,
                   frame_idx, max_complexity_score, best_frame, best_frame_idx,
                   scored,
                   mainVars, detectorVars, apiVars>>

\* ---------------------------------------------- TruthScanDetector (video)

\* A value that is present, as opposed to None.
Some(x) == [v |-> x]

\* {"success": False, "error": msg}
Failure(msg) == [success |-> FALSE, error |-> msg]

\* What the final parse can read from the page body: whether it contains
\* "Analyzing..." and "Inspecting Pixels", the matches of the three regular
\* expressions, and the first bare percentage whose context qualifies.
Pages ==
    [analyzing : BOOLEAN,
     inspecting : BOOLEAN,
     probability : {None, Some(87)},
     confidence : {None, Some("High")},
     classification : {None, Some("Fake"), Some("Real")},
     loose_pct : {None, Some(40)}]

\* The dict _wait_for_results starts from.
EmptyResult ==
    [success |-> FALSE, verdict |-> None, ai_percentage |-> None,
     human_percentage |-> None, confidence |-> None, is_ai_generated |-> None,
     error |-> None]

\* Reading the page body raised.
Unreadable == [unreadable |-> TRUE]

\* Faulty variant of ParseResults: the "Analyzing..." text is not looked for.
ParseResults_IgnoresAnalyzing(pg) ==
    IF pg = Unreadable
    THEN [EmptyResult EXCEPT !.error = Some("Parsing error")]
    ELSE LET pct == IF pg.probability # None THEN pg.probability ELSE pg.loose_pct
             verdict == IF pg.classification = None THEN None
                        ELSE IF pg.classification = Some("Fake")
                             THEN Some("AI Generated") ELSE Some("Human Created")
             ok == verdict # None \/ pct # None
         IN  [success |-> ok,
              verdict |-> verdict,
              ai_percentage |-> pct,
              human_percentage |-> IF pct = None THEN None ELSE Some(100 - pct.v),
              confidence |-> pg.confidence,
              is_ai_generated |-> IF pg.classification = None THEN None
                                  ELSE Some(pg.classification = Some("Fake")),
              error |-> IF ok THEN None ELSE Some("Incomplete results")]

\* The final parse of _wait_for_results.
ParseResults(pg) ==
    IF pg = Unreadable
    THEN [EmptyResult EXCEPT !.error = Some("Parsing error")]
    ELSE IF pg.analyzing
    THEN [EmptyResult EXCEPT !.error = Some("Analysis timeout - still processing")]
    ELSE LET pct == IF pg.probability # None THEN pg.probability ELSE pg.loose_pct
             verdict == IF pg.classification = None THEN None
                        ELSE IF pg.classification = Some("Fake")
                             THEN Some("AI Generated") ELSE Some("Human Created")
             ok == (verdict # None \/ pct # None) /\ ~pg.analyzing
         IN  [success |-> ok,
              verdict |-> verdict,
              ai_percentage |-> pct,
              human_percentage |-> IF pct = None THEN None ELSE Some(100 - pct.v),
              confidence |-> pg.confidence,
              is_ai_generated |-> IF pg.classification = None THEN None
                                  ELSE Some(pg.classification = Some("Fake")),
              error |-> IF ok THEN None ELSE Some("Incomplete results")]

\* wait_time=120, the bound of the polling loop
wait_time == 120

\* What one pass of the polling loop can meet: how self.driver.title ends, and
\* the body text if it can be read: whether it contains "Analyzing..." and
\* "Inspecting Pixels", whether the probability and the classification
\* expressions match, and whether some line with a percentage has a context
\* that qualifies.
PollTexts ==
    [analyzing : BOOLEAN, inspecting : BOOLEAN, probability : BOOLEAN,
     classification : BOOLEAN, context : BOOLEAN]

PollViews ==
    [title : {"ok"}, text : PollTexts \cup {Unreadable}]
        \cup [title : {"WebDriverException", "other exception"},
              text : {Unreadable}]

\* No pass of the loop yet.
NoPoll == [outcome |-> "none", marker |-> FALSE, complete |-> FALSE]

\* One pass of the loop body: how it ends, with the values of is_analyzing
\* (marker) and of the tests for complete results where they are computed.
PollOutcome(view) ==
    IF view.title = "WebDriverException"
    THEN [outcome |-> "dead", marker |-> FALSE, complete |-> FALSE]
    ELSE IF view.title # "ok"
    THEN [outcome |-> "propagated", marker |-> FALSE, complete |-> FALSE]
    ELSE IF view.text = Unreadable
    THEN [outcome |-> "raised", marker |-> FALSE, complete |-> FALSE]
    ELSE LET is_analyzing == view.text.analyzing \/ view.text.inspecting
             complete == \/ view.text.probability /\ view.text.classification
                         \/ view.text.context
         IN  IF is_analyzing
             THEN [outcome |-> "analyzing", marker |-> TRUE, complete |-> complete]
             ELSE IF complete
             THEN [outcome |-> "found", marker |-> FALSE, complete |-> TRUE]
             ELSE [outcome |-> "nothing", marker |-> FALSE, complete |-> FALSE]

\* The passes that end in `break`.
Breaks(outcome) == outcome \in {"dead", "found"}

\* for i in range(wait_time): the loop goes on while passes are left.
LoopNext(n) == IF n < wait_time THEN "det_wait" ELSE "det_parse"

\* Where control goes when TruthScanDetector.check_image returns.
AfterDetector == IF mode = "detect" THEN "done" ELSE "main_cleanup"

\* Faulty variant of DetectorExists: the path is not looked at.
DetectorExists_NoCheck ==
    /\ pc = "det_exists"
    /\ pc' = "det_setup"
    /\ UNCHANGED <<mode, extractVars, mainVars, detectorVars, apiVars>>

\* if not Path(image_path).exists(): return {"success": False, ...}
DetectorExists ==
    /\ pc = "det_exists"
    /\ IF frame_file = None
       THEN /\ result' = Failure("Image not found")
            /\ pc' = AfterDetector
       ELSE /\ pc' = "det_setup"
            /\ UNCHANGED result
    /\ UNCHANGED <<mode, extractVars, mainVars, driver, quit_calls, page, pollVars,
                   apiVars>>

\* self._setup_driver(): webdriver.Chrome(...) then execute_script(...); either
\* may raise, the second with self.driver already set.
SetupDriver ==
    /\ pc = "det_setup"
    /\ \E outcome \in {"ok", "chrome_raises", "script_raises"} :
          /\ driver' = IF outcome = "chrome_raises" THEN "none" ELSE "running"
          /\ IF outcome = "ok"
             THEN /\ pc' = "det_get"
                  /\ UNCHANGED result
             ELSE /\ pc' = "det_finally"
                  /\ result' = Failure("Browser initialization failed")
    /\ UNCHANGED <<mode, extractVars, mainVars, quit_calls, page, pollVars,
                   apiVars>>

\* self.driver.get(self.url); time.sleep(5); self._safe_popup_close()
LoadPage ==
    /\ pc = "det_get"
    /\ \E loaded \in BOOLEAN :
          IF loaded
          THEN /\ pc' = "det_find"
               /\ UNCHANGED result
          ELSE /\ pc' = "det_finally"
               /\ result' = Failure("WebDriverException")
    /\ UNCHANGED <<mode, extractVars, mainVars, driver, quit_calls, page, pollVars,
                   apiVars>>

\* file_input = self._find_file_input(); raise if it is None
FindFileInput ==
    /\ pc = "det_find"
    /\ \E found \in BOOLEAN :
          IF found
          THEN /\ pc' = "det_send"
               /\ UNCHANGED result
          ELSE /\ pc' = "det_finally"
               /\ result' = Failure("Could not find file upload element")
    /\ UNCHANGED <<mode, extractVars, mainVars, driver, quit_calls, page, pollVars,
                   apiVars>>

\* file_input.send_keys(abs_path); time.sleep(2); self._safe_popup_close()
SendKeys ==
    /\ pc = "det_send"
    /\ \E sent \in BOOLEAN :
          IF sent
          THEN /\ pc' = LoopNext(0)
               /\ UNCHANGED result
          ELSE /\ pc' = "det_finally"
               /\ result' = Failure("WebDriverException")
    /\ UNCHANGED <<mode, extractVars, mainVars, driver, quit_calls, page, pollVars,
                   apiVars>>

\* One pass of the polling loop of _wait_for_results: the responsiveness
\* check (whose other exceptions leave _wait_for_results and reach the except
\* of check_image), the reading of the page, `continue` or `break`.
PollResults ==
    /\ pc = "det_wait"
    /\ polls < wait_time
    /\ \E view \in PollViews :
          LET p == PollOutcome(view)
          IN  /\ last_poll' = p
              /\ IF p.outcome = "propagated"
                 THEN /\ result' = Failure("exception text")
                      /\ pc' = "det_finally"
                      /\ polls' = 0
                      /\ results_found' = FALSE
                 ELSE /\ polls' = polls + 1
                      /\ results_found' = (p.outcome = "found")
                      /\ pc' = IF Breaks(p.outcome) THEN "det_parse"
                               ELSE LoopNext(polls + 1)
                      /\ UNCHANGED result
    /\ UNCHANGED <<mode, extractVars, mainVars, driver, quit_calls, page, apiVars>>

\* The final parse of _wait_for_results and its return: the page as the parse
\* finds it, and the dict parsed from it.
WaitForResults ==
    /\ pc = "det_parse"
    /\ \E pg \in Pages \cup {Unreadable} :
          /\ page' = pg
          /\ result' = ParseResults(pg)
    /\ polls' = 0
    /\ results_found' = FALSE
    /\ pc' = "det_finally"
    /\ UNCHANGED <<mode, extractVars, mainVars, driver, quit_calls, last_poll,
                   apiVars>>

\* Faulty variant of DetectorFinally: the driver is quit only after a
\* successful result.
DetectorFinally_OnlyOnSuccess ==
    /\ pc = "det_finally"
    /\ IF driver = "running" /\ result.success
       THEN /\ driver' = "quit"
            /\ quit_calls' = quit_calls + 1
       ELSE UNCHANGED <<driver, quit_calls>>
    /\ last_poll' = NoPoll
    /\ pc' = AfterDetector
    /\ UNCHANGED <<mode, extractVars, mainVars, result, page, polls,
                   results_found, apiVars>>

\* finally: if self.driver: self.driver.quit(); then check_image returns.
DetectorFinally ==
    /\ pc = "det_finally"
    /\ IF driver = "running"
       THEN /\ driver' = "quit"
            /\ quit_calls' = quit_calls + 1
       ELSE UNCHANGED <<driver, quit_calls>>
    /\ last_poll' = NoPoll
    /\ pc' = AfterDetector
    /\ UNCHANGED <<mode, extractVars, mainVars, result, page, polls,
                   results_found, apiVars>>

\* ------------------------------ truthscan_analyzer_video.py, __main__

\* if len(sys.argv) < 2: print(json.dumps({...})); sys.exit(1)
VideoMainArgs ==
    /\ mode = "video"
    /\ pc = "main_args"
    /\ IF ~argv_given
       THEN /\ stdout' = Append(stdout, Failure("No video path provided"))
            /\ exit_code' = "1"
            /\ pc' = "exit"
       ELSE /\ pc' = "main_mkdir"
            /\ UNCHANGED <<stdout, exit_code>>
    /\ UNCHANGED <<mode, extractVars, argv_given, temp_dir, detectorVars, apiVars>>

\* os.makedirs(temp_dir) when it is missing, then the call
\* extract_most_complex_frame(video_path, frame_path, sample_rate=30).
VideoMainExtract ==
    /\ pc = "main_mkdir"
    /\ temp_dir' = IF temp_dir = "absent" THEN "created" ELSE temp_dir
    /\ sample_rate' = DefaultSampleRate
    /\ extract_status' = "running"
    /\ pc' = "extract_exists"
    /\ UNCHANGED <<mode, video_exists, video_openable, video_frames, exc,
                   open_calls, cap, cap_pos, read_calls, read_log, frame_idx,
                   max_complexity_score, best_frame, best_frame_idx, scored,
                   frame_file, argv_given, stdout, exit_code, detectorVars, apiVars>>

\* try: os.remove(frame_path); os.rmdir(temp_dir)  except: pass
\* rmdir removes the directory only when nothing else is in it.
VideoMainCleanup ==
    /\ pc = "main_cleanup"
    /\ IF frame_file = None
       THEN UNCHANGED <<frame_file, temp_dir>>
       ELSE /\ frame_file' = None
            /\ \E empty \in BOOLEAN :
                  temp_dir' = IF temp_dir = "created" \/ empty
                              THEN "absent" ELSE temp_dir
    /\ pc' = "main_print"
    /\ UNCHANGED <<mode, video_exists, video_openable, video_frames, sample_rate,
                   extract_status, exc, open_calls, cap, cap_pos, read_calls,
                   read_log, frame_idx, max_complexity_score, best_frame,
                   best_frame_idx, scored, argv_given, stdout, exit_code,
                   detectorVars, apiVars>>

\* print(json.dumps(result)), and the script ends.
VideoMainPrint ==
    /\ pc = "main_print"
    /\ stdout' = Append(stdout, result)
    /\ exit_code' = "0"
    /\ pc' = "exit"
    /\ UNCHANGED <<mode, extractVars, argv_given, temp_dir, detectorVars, apiVars>>

\* Faulty variant of VideoMainExcept: exits without printing.
VideoMainExcept_Silent ==
    /\ pc = "main_except"
    /\ exit_code' = "1"
    /\ pc' = "exit"
    /\ UNCHANGED <<mode, extractVars, argv_given, stdout, temp_dir, detectorVars, apiVars>>

\* except Exception as e: print(json.dumps({...})); sys.exit(1)
VideoMainExcept ==
    /\ pc = "main_except"
    /\ stdout' = Append(stdout, Failure(exc))
    /\ exit_code' = "1"
    /\ pc' = "exit"
    /\ UNCHANGED <<mode, extractVars, argv_given, temp_dir, detectorVars, apiVars>>

\* ------------------------------------------------- TruthScanDirectAPI

\* self.max_retries = 3
max_retries == 3

\* self.retry_delay = 2  (seconds)
retry_delay == 2

\* random.uniform(0.5, 2.0), in tenths of a second: the two ends of the range.
RetryJitter == {5, 20}

\* 1 + random.uniform(0.5, 1.5), in tenths of a second: the two ends.
StepPause == {15, 25}

\* The wrapped function raised, or returned something .get() cannot be called on.
Raised == [raised |-> TRUE]

\* What _upload_image can hand to _retry_request: the service's JSON (with or
\* without the keys check_image reads), a failure dict, or a non-dict.
UploadReturns ==
    {[success |-> TRUE, imageUrl |-> TRUE, r2FilePath |-> TRUE],
     [success |-> TRUE, imageUrl |-> FALSE, r2FilePath |-> FALSE],
     Failure("500 Internal Server Error"),
     Raised}

\* What _ai_detect can hand to _retry_request; details_ok and score_ok say
\* whether 'details' is a dict and 'score' a number.
DetectReturns ==
    {[success |-> TRUE, details_ok |-> d, score_ok |-> n] : d, n \in BOOLEAN}
        \cup {Failure("429 Too Many Requests"), Raised}

\* 2 ** attempt
RECURSIVE Pow2(_)
Pow2(k) == IF k = 0 THEN 1 ELSE 2 * Pow2(k - 1)

\* time.sleep(wait_time) between two attempts of `step`.
Backoff(step, t) == [kind |-> "backoff", step |-> step, t |-> t]

\* time.sleep(1 + random.uniform(0.5, 1.5)) between two steps of check_image.
Pause(t) == [kind |-> "pause", step |-> "none", t |-> t]

\* Faulty variant of BackoffWait: the same base delay before every retry.
BackoffWait_Constant(k, jitter) == retry_delay * 10 + jitter

\* wait_time = self.retry_delay * (2 ** attempt) + random.uniform(0.5, 2.0)
BackoffWait(k, jitter) == retry_delay * 10 * Pow2(k) + jitter

\* Faulty variant of RetryPass: a successful result is not returned before
\* the last attempt.
RetryPass_IgnoresSuccess(k, ret, jitter) ==
    IF k = max_retries - 1
    THEN [returns |-> TRUE,
          value |-> IF ret = Raised THEN Failure("exception text") ELSE ret,
          wait |-> 0]
    ELSE [returns |-> FALSE, value |-> None, wait |-> BackoffWait(k, jitter)]

\* Faulty variant of RetryPass: the last attempt is taken to be number
\* max_retries, so a failing last attempt waits and falls out of the loop.
RetryPass_OffByOne(k, ret, jitter) ==
    IF ret # Raised /\ ret.success
    THEN [returns |-> TRUE, value |-> ret, wait |-> 0]
    ELSE IF k = max_retries
    THEN [returns |-> TRUE,
          value |-> IF ret = Raised THEN Failure("exception text") ELSE ret,
          wait |-> 0]
    ELSE [returns |-> FALSE, value |-> None, wait |-> BackoffWait(k, jitter)]

\* One pass of the for loop of _retry_request with attempt = k, the wrapped
\* function having ended with ret: either the value returned to the caller,
\* or the wait before the next pass.
RetryPass(k, ret, jitter) ==
    IF ret # Raised
    THEN IF ret.success \/ k = max_retries - 1
         THEN [returns |-> TRUE, value |-> ret, wait |-> 0]
         ELSE [returns |-> FALSE, value |-> None, wait |-> BackoffWait(k, jitter)]
    ELSE IF k = max_retries - 1
         THEN [returns |-> TRUE, value |-> Failure("exception text"), wait |-> 0]
         ELSE [returns |-> FALSE, value |-> None, wait |-> BackoffWait(k, jitter)]

\* One pass of _retry_request(step) and what follows it: the return of the
\* pass, the next pass after the wait, or, when the loop is exhausted, the
\* return after the loop.
RetryRound(step, k, ret, jitter) ==
    LET p == RetryPass(k, ret, jitter)
    IN  IF p.returns
        THEN [done |-> TRUE, value |-> p.value, slept |-> <<>>]
        ELSE IF k + 1 < max_retries
        THEN [done |-> FALSE, value |-> None, slept |-> <<Backoff(step, p.wait)>>]
        ELSE [done |-> TRUE, value |-> Failure("Max retries exceeded"),
              slept |-> <<Backoff(step, p.wait)>>]

\* Where control goes when check_image returns.
AfterCheckImage == "img_print"

\* if not Path(image_path).exists(): return {"success": False, ...}
ApiExists ==
    /\ pc = "api_exists"
    /\ IF ~image_exists
       THEN /\ result' = Failure("Image not found")
            /\ pc' = AfterCheckImage
       ELSE /\ pc' = "api_upload"
            /\ UNCHANGED result
    /\ attempt' = 0
    /\ UNCHANGED <<mode, extractVars, mainVars, driver, quit_calls, page, pollVars,
                   image_exists, upload_result, detection_result,
                   moderation_result, analysis_result, requests, returns,
                   sleeps>>

\* One attempt of self._retry_request(self._upload_image, image_path).
UploadAttempt ==
    /\ pc = "api_upload"
    /\ attempt < max_retries
    /\ requests' = Append(requests, "upload")
    /\ \E ret \in UploadReturns, jitter \in RetryJitter :
          LET r == RetryRound("upload", attempt, ret, jitter)
          IN  /\ returns' = Append(returns, ret)
              /\ sleeps' = sleeps \o r.slept
              /\ IF r.done
                 THEN /\ upload_result' = r.value
                      /\ pc' = "api_uploaded"
                      /\ UNCHANGED attempt
                 ELSE /\ attempt' = attempt + 1
                      /\ UNCHANGED <<pc, upload_result>>
    /\ UNCHANGED <<mode, extractVars, mainVars, detectorVars, image_exists,
                   detection_result, moderation_result, analysis_result>>

\* Faulty variant of AfterUpload: the detection step follows whatever the
\* upload ended with.
AfterUpload_NoCheck ==
    /\ pc = "api_uploaded"
    /\ \E pause \in StepPause : sleeps' = Append(sleeps, Pause(pause))
    /\ pc' = "api_detect"
    /\ attempt' = 0
    /\ UNCHANGED <<mode, extractVars, mainVars, detectorVars, image_exists,
                   upload_result, detection_result, moderation_result,
                   analysis_result, requests, returns>>

\* The check of upload_result, the reads of its keys (KeyError goes to the
\* outer except) and the pause before the detection step.
AfterUpload ==
    /\ pc = "api_uploaded"
    /\ IF ~upload_result.success
       THEN /\ result' = Failure("Image upload failed")
            /\ pc' = AfterCheckImage
            /\ UNCHANGED sleeps
       ELSE IF ~(upload_result.imageUrl /\ upload_result.r2FilePath)
       THEN /\ result' = Failure("KeyError")
            /\ pc' = AfterCheckImage
            /\ UNCHANGED sleeps
       ELSE /\ \E pause \in StepPause : sleeps' = Append(sleeps, Pause(pause))
            /\ pc' = "api_detect"
            /\ UNCHANGED result
    /\ attempt' = 0
    /\ UNCHANGED <<mode, extractVars, mainVars, driver, quit_calls, page, pollVars,
                   image_exists, upload_result, detection_result,
                   moderation_result, analysis_result, requests, returns>>

\* One attempt of self._retry_request(self._ai_detect, ...).
DetectAttempt ==
    /\ pc = "api_detect"
    /\ attempt < max_retries
    /\ requests' = Append(requests, "detect")
    /\ \E ret \in DetectReturns, jitter \in RetryJitter :
          LET r == RetryRound("detect", attempt, ret, jitter)
          IN  /\ returns' = Append(returns, ret)
              /\ sleeps' = sleeps \o r.slept
              /\ IF r.done
                 THEN /\ detection_result' = r.value
                      /\ pc' = "api_detected"
                      /\ UNCHANGED attempt
                 ELSE /\ attempt' = attempt + 1
                      /\ UNCHANGED <<pc, detection_result>>
    /\ UNCHANGED <<mode, extractVars, mainVars, detectorVars, image_exists,
                   upload_result, moderation_result, analysis_result>>

\* The check of detection_result and the pause before the moderation step.
AfterDetect ==
    /\ pc = "api_detected"
    /\ IF ~detection_result.success
       THEN /\ result' = Failure("AI detection failed")
            /\ pc' = AfterCheckImage
            /\ UNCHANGED sleeps
       ELSE /\ \E pause \in StepPause : sleeps' = Append(sleeps, Pause(pause))
            /\ pc' = "api_moderate"
            /\ UNCHANGED result
    /\ UNCHANGED <<mode, extractVars, mainVars, driver, quit_calls, page, pollVars,
                   image_exists, attempt, upload_result, detection_result,
                   moderation_result, analysis_result, requests, returns>>

\* Faulty variant of Moderate: a failed moderation request is not caught in
\* _moderate_content and ends check_image in its outer except.
Moderate_Critical ==
    /\ pc = "api_moderate"
    /\ requests' = Append(requests, "moderate")
    /\ \E answered \in BOOLEAN :
          /\ returns' = Append(returns, [answered |-> answered])
          /\ IF answered
             THEN /\ moderation_result' = [response |-> TRUE]
                  /\ \E pause \in StepPause : sleeps' = Append(sleeps, Pause(pause))
                  /\ pc' = "api_analyze"
                  /\ UNCHANGED result
             ELSE /\ result' = Failure("exception text")
                  /\ pc' = AfterCheckImage
                  /\ UNCHANGED <<moderation_result, sleeps>>
    /\ UNCHANGED <<mode, extractVars, mainVars, driver, quit_calls, page, pollVars,
                   image_exists, attempt, upload_result, detection_result,
                   analysis_result>>

\* moderation_result = self._moderate_content(image_url), which answers
\* {"safe": True} on any failure, and the pause before the analysis step.
Moderate ==
    /\ pc = "api_moderate"
    /\ requests' = Append(requests, "moderate")
    /\ \E answered \in BOOLEAN :
          /\ returns' = Append(returns, [answered |-> answered])
          /\ moderation_result' = IF answered THEN [response |-> TRUE]
                                  ELSE [safe |-> TRUE]
    /\ \E pause \in StepPause : sleeps' = Append(sleeps, Pause(pause))
    /\ pc' = "api_analyze"
    /\ UNCHANGED <<mode, extractVars, mainVars, detectorVars, image_exists,
                   attempt, upload_result, detection_result, analysis_result>>

\* analysis_result = {}; try: self._ai_image_analysis(...) except: pass.
\* Building the arguments raises, before any request, when 'details' is no
\* dict; _ai_image_analysis answers {} on any failure.
Analyze ==
    /\ pc = "api_analyze"
    /\ IF ~detection_result.details_ok
       THEN /\ analysis_result' = [empty |-> TRUE]
            /\ UNCHANGED <<requests, returns>>
       ELSE /\ requests' = Append(requests, "analyze")
            /\ \E answered \in BOOLEAN :
                  /\ returns' = Append(returns, [answered |-> answered])
                  /\ analysis_result' = IF answered THEN [response |-> TRUE]
                                        ELSE [empty |-> TRUE]
    /\ pc' = "api_format"
    /\ UNCHANGED <<mode, extractVars, mainVars, detectorVars, image_exists,
                   attempt, upload_result, detection_result, moderation_result,
                   sleeps>>

\* return self._format_results(...); what it raises (details no dict, score no
\* number) is caught by the outer except of check_image.
FormatResults ==
    /\ pc = "api_format"
    /\ result' = IF detection_result.details_ok /\ detection_result.score_ok
                 THEN [success |-> TRUE, analysis |-> analysis_result]
                 ELSE Failure("exception text")
    /\ pc' = AfterCheckImage
    /\ UNCHANGED <<mode, extractVars, mainVars, driver, quit_calls, page, pollVars,
                   apiVars>>

\* ------------------------------------ truthscan_analyzer.py, __main__

\* if len(sys.argv) < 2: print(json.dumps({...})); sys.exit(1)
ImageMainArgs ==
    /\ mode = "image"
    /\ pc = "main_args"
    /\ IF ~argv_given
       THEN /\ stdout' = Append(stdout, Failure("No image path provided"))
            /\ exit_code' = "1"
            /\ pc' = "exit"
       ELSE /\ pc' = "api_exists"
            /\ UNCHANGED <<stdout, exit_code>>
    /\ UNCHANGED <<mode, extractVars, argv_given, temp_dir, detectorVars, apiVars>>

\* print(json.dumps(result)), and the script ends.
ImageMainPrint ==
    /\ pc = "img_print"
    /\ stdout' = Append(stdout, result)
    /\ exit_code' = "0"
    /\ pc' = "exit"
    /\ UNCHANGED <<mode, extractVars, argv_given, temp_dir, detectorVars, apiVars>>

\* ------------------------------------------------------------------ runs

\* The videos a run may be given: a missing path, a file cv2 cannot open, or
\* an openable stream.
InitVideo ==
    \/ /\ video_exists = FALSE /\ video_openable = FALSE /\ video_frames = <<>>
    \/ /\ video_exists = TRUE /\ video_openable = FALSE /\ video_frames = <<>>
    \/ /\ video_exists = TRUE /\ video_openable = TRUE /\ video_frames \in Streams

InitExtract ==
    /\ extract_status = "not_called"
    /\ exc = "None"
    /\ open_calls = 0
    /\ cap = "none"
    /\ cap_pos = 0
    /\ read_calls = 0
    /\ read_log = <<>>
    /\ frame_idx = 0
    /\ max_complexity_score = 0
    /\ best_frame = None
    /\ best_frame_idx = 0
    /\ scored = {}
    /\ frame_file = None

InitMain ==
    /\ stdout = <<>>
    /\ exit_code = "running"
    /\ temp_dir \in {"absent", "present"}

InitDetector ==
    /\ result = None
    /\ driver = "none"
    /\ quit_calls = 0
    /\ page = None
    /\ polls = 0
    /\ last_poll = NoPoll
    /\ results_found = FALSE

InitApi ==
    /\ attempt = 0
    /\ upload_result = None
    /\ detection_result = None
    /\ moderation_result = None
    /\ analysis_result = None
    /\ requests = <<>>
    /\ returns = <<>>
    /\ sleeps = <<>>

InitCall ==
    /\ mode = "call"
    /\ pc = "call"
    /\ InitVideo
    /\ sample_rate \in Strides
    /\ InitExtract
    /\ argv_given = TRUE
    /\ stdout = <<>>
    /\ exit_code = "running"
    /\ temp_dir = "present"
    /\ InitDetector
    /\ image_exists = FALSE
    /\ InitApi

\* The caller enters extract_most_complex_frame(video_path, output_path, N).
CallExtract ==
    /\ mode = "call"
    /\ pc = "call"
    /\ pc' = "extract_exists"
    /\ extract_status' = "running"
    /\ UNCHANGED <<mode, video_exists, video_openable, video_frames, sample_rate,
                   exc, open_calls, cap, cap_pos, read_calls, read_log,
                   frame_idx, max_complexity_score, best_frame, best_frame_idx,
                   scored, frame_file,
                   mainVars, detectorVars, apiVars>>

InitVideoRun ==
    /\ mode = "video"
    /\ pc = "main_args"
    /\ argv_given \in BOOLEAN
    /\ InitVideo
    /\ Len(video_frames) <= MaxScriptFrames
    /\ sample_rate = DefaultSampleRate
    /\ InitExtract
    /\ InitMain
    /\ InitDetector
    /\ image_exists = FALSE
    /\ InitApi

InitImageRun ==
    /\ mode = "image"
    /\ pc = "main_args"
    /\ argv_given \in BOOLEAN
    /\ image_exists \in BOOLEAN
    /\ video_exists = FALSE
    /\ video_openable = FALSE
    /\ video_frames = <<>>
    /\ sample_rate = DefaultSampleRate
    /\ InitExtract
    /\ stdout = <<>>
    /\ exit_code = "running"
    /\ temp_dir = "absent"
    /\ InitDetector
    /\ InitApi

\* A caller enters TruthScanDetector.check_image(image_path) with a path at
\* which there is a file or none; frame_file is what is at that path.
InitDetectCall ==
    /\ mode = "detect"
    /\ pc = "det_exists"
    /\ argv_given = TRUE
    /\ video_exists = FALSE
    /\ video_openable = FALSE
    /\ video_frames = <<>>
    /\ sample_rate = DefaultSampleRate
    /\ extract_status = "not_called"
    /\ exc = "None"
    /\ open_calls = 0
    /\ cap = "none"
    /\ cap_pos = 0
    /\ read_calls = 0
    /\ read_log = <<>>
    /\ frame_idx = 0
    /\ max_complexity_score = 0
    /\ best_frame = None
    /\ best_frame_idx = 0
    /\ scored = {}
    /\ frame_file \in {None, Sharp}
    /\ stdout = <<>>
    /\ exit_code = "running"
    /\ temp_dir = "absent"
    /\ InitDetector
    /\ image_exists = FALSE
    /\ InitApi

Init == InitCall \/ InitDetectCall \/ InitVideoRun \/ InitImageRun

Next ==
    \/ CallExtract
    \/ ExistsCheck
    \/ OpenCapture
    \/ ReadFrame
    \/ Release
    \/ CheckBest
    \/ WriteFrame
    \/ DetectorExists
    \/ SetupDriver
    \/ LoadPage
    \/ FindFileInput
    \/ SendKeys
    \/ PollResults
    \/ WaitForResults
    \/ DetectorFinally
    \/ VideoMainArgs
    \/ VideoMainExtract
    \/ VideoMainCleanup
    \/ VideoMainPrint
    \/ VideoMainExcept
    \/ ApiExists
    \/ UploadAttempt
    \/ AfterUpload
    \/ DetectAttempt
    \/ AfterDetect
    \/ Moderate
    \/ Analyze
    \/ FormatResults
    \/ ImageMainArgs
    \/ ImageMainPrint

Spec == Init /\ [][Next]_vars

\* ---------------------------------------------------------------- claims

\* extract_most_complex_frame has ended, by return or by exception.
ExtractEnded == extract_status \in {"returned", "raised"}

\* The zero-based indices of a stream that are multiples of the stride.
Multiples(frames, rate) == {i \in 0..(Len(frames) - 1) : i % rate = 0}

\* The streams that differ from `frames` in the content of one frame at an
\* index that is not a multiple of the stride.
NonMultipleEdits(frames, rate) ==
    {[frames EXCEPT ![i + 1] = f] :
        i \in (0..(Len(frames) - 1)) \ Multiples(frames, rate), f \in FrameSet}

Min(S) == CHOOSE x \in S : \A y \in S : x <= y

\* What the call that has ended produced.
Produced ==
    [status |-> extract_status, best_frame_idx |-> best_frame_idx,
     best_frame |-> best_frame]

\* C1: for every stride N >= 1 only frames at indices that are multiples of N
\* are scored, the selected index is a multiple of N, and replacing the
\* content of a frame at a non-multiple index changes neither the selected
\* index nor the outcome.
C1_OnlyMultiplesCount ==
    sample_rate >= 1 =>
        /\ \A i \in scored : i % sample_rate = 0
        /\ best_frame_idx % sample_rate = 0
        /\ best_frame # None => best_frame_idx \in scored
        /\ (ExtractEnded /\ video_openable) =>
              \A alt \in NonMultipleEdits(video_frames, sample_rate) :
                  ScanOutcome(alt, sample_rate) = Produced

\* A checkerboard at index 1 was passed over with stride 2 and frame 2 won.
C1_Witness ==
    /\ extract_status = "returned"
    /\ sample_rate = 2
    /\ Len(video_frames) = 3
    /\ video_frames[2] = Checkerboard
    /\ scored = {0, 2}
    /\ best_frame_idx = 2

\* The video script has passed its clean-up, which removes the frame file.
CleanedUp == pc \in {"main_print", "exit"}

\* C2: on success the frame retained and written out is a sampled frame whose
\* score is at least the score of every sampled frame of the stream.
C2_BestIsMaximum ==
    extract_status = "returned" =>
        /\ scored = Multiples(video_frames, sample_rate)
        /\ best_frame_idx \in scored
        /\ best_frame = video_frames[best_frame_idx + 1]
        /\ ~CleanedUp => frame_file = best_frame
        /\ max_complexity_score = ComplexityScore(best_frame)
        /\ \A i \in scored :
              ComplexityScore(video_frames[i + 1]) <= ComplexityScore(best_frame)

\* The winner came after a lower-scoring sampled frame and before another.
C2_Witness ==
    /\ extract_status = "returned"
    /\ Cardinality(scored) = 3
    /\ best_frame_idx = 1
    /\ video_frames[1] = Sharp
    /\ video_frames[3] = Contrast
    /\ frame_file = Checkerboard

\* C3: on an opened stream with stride >= 1 a result is produced whenever at
\* least one frame was scored, and the call fails only when the stream could
\* not be opened or no frame was scored.
C3_ResultWheneverScored ==
    (ExtractEnded /\ sample_rate >= 1) =>
        /\ (video_openable /\ scored # {}) => extract_status = "returned"
        /\ extract_status = "raised" =>
              (~video_exists \/ ~video_openable \/ scored = {})

\* The sampled indices whose frame has the maximal score of the sampled set.
TopScored ==
    {i \in scored :
        \A j \in scored :
            ComplexityScore(video_frames[j + 1]) <= ComplexityScore(video_frames[i + 1])}

\* C4: when two or more sampled frames share the maximal score, the one with
\* the smallest index is retained and returned.
C4_EarliestOfTies ==
    (ExtractEnded /\ video_openable /\ sample_rate >= 1 /\ Cardinality(TopScored) >= 2) =>
        /\ extract_status = "returned"
        /\ best_frame_idx = Min(TopScored)
        /\ ~CleanedUp => frame_file = video_frames[Min(TopScored) + 1]

\* The part of C4 the code keeps: a tie at a positive maximal score returns
\* the earliest of the tied frames.
TiesAtPositiveScoreKeepEarliest ==
    (ExtractEnded /\ video_openable /\ sample_rate >= 1 /\ max_complexity_score > 0) =>
        /\ extract_status = "returned"
        /\ best_frame_idx = Min(TopScored)

\* The part of C4 the code keeps: the retained frame is replaced only by a
\* frame that scores strictly more.
ReplacedOnlyByStrictlyGreater ==
    [][best_frame' # best_frame \/ best_frame_idx' # best_frame_idx
          => max_complexity_score' > max_complexity_score]_vars

\* C5: a stream with zero frames ends with the no-frame error, raised after
\* the scan loop; a missing or unopenable path ends with the open error before
\* any frame is read; neither produces a result.
C5_DegenerateInputsFail ==
    ExtractEnded =>
        /\ (~video_exists \/ ~video_openable) =>
              /\ extract_status = "raised"
              /\ exc = IF video_exists
                       THEN "ValueError: Could not open video file"
                       ELSE "FileNotFoundError"
              /\ read_calls = 0
              /\ frame_file = None
        /\ (video_openable /\ video_frames = <<>>) =>
              /\ extract_status = "raised"
              /\ exc = "ValueError: Could not extract any frame from video"
              /\ read_calls = 1
              /\ cap = "released"
              /\ frame_file = None

\* An unopenable file was refused after one VideoCapture construction.
C5_Witness ==
    /\ extract_status = "raised"
    /\ video_exists
    /\ ~video_openable
    /\ open_calls = 1
    /\ exc = "ValueError: Could not open video file"

\* C6: once the stream handle is open it is released on every exit path of
\* the call.
C6_HandleReleased == ExtractEnded => cap # "open"

\* C7 as stated: stride 1 scores every frame; a stride equal to or larger than
\* the number of frames scores exactly frame 0.
C7_StrideBoundaries ==
    (cap = "released" /\ sample_rate >= 1) =>
        /\ sample_rate = 1 => scored = 0..(Len(video_frames) - 1)
        /\ sample_rate >= Len(video_frames) => scored = {0}

\* C7 amended: stride 1 scores every frame; on a stream with at least one
\* frame a stride equal to or larger than the number of frames scores exactly
\* frame 0 (a stream with no frame has nothing to score).
C7_StrideBoundariesNonEmpty ==
    (cap = "released" /\ sample_rate >= 1) =>
        /\ sample_rate = 1 => scored = 0..(Len(video_frames) - 1)
        /\ (sample_rate >= Len(video_frames) /\ video_frames # <<>>) => scored = {0}
        /\ video_frames = <<>> => scored = {}

\* A two-frame stream scanned with stride 2: only frame 0 was scored although
\* frame 1 is the checkerboard.
C7_Witness ==
    /\ cap = "released"
    /\ sample_rate = 2
    /\ Len(video_frames) = 2
    /\ video_frames[2] = Checkerboard
    /\ read_log = <<0, 1>>
    /\ scored = {0}

\* C8: on the 90-frame scenario with stride 30 the candidates are frames 0, 30
\* and 60, frame 45 does not influence the outcome, and the call returns
\* frame 0 on the three-way tie at score zero.
C8_ScenarioReturnsFrame0 ==
    (ExtractEnded /\ video_frames = Scenario90 /\ sample_rate = DefaultSampleRate) =>
        /\ scored = {0, 30, 60}
        /\ \A f \in FrameSet :
              ScanOutcome([video_frames EXCEPT ![46] = f], sample_rate) = Produced
        /\ extract_status = "returned"
        /\ best_frame_idx = 0

\* The part of C8 the code keeps: the candidates and the irrelevance of
\* frame 45.
ScenarioCandidates ==
    (ExtractEnded /\ video_frames = Scenario90 /\ sample_rate = DefaultSampleRate) =>
        /\ scored = {0, 30, 60}
        /\ read_log = [i \in 1..90 |-> i - 1]
        /\ \A f \in FrameSet :
              ScanOutcome([video_frames EXCEPT ![46] = f], sample_rate) = Produced

\* C9: a call that fails with the open error or the no-frame error has
\* written no output image, opened the stream at most once and read each
\* frame at most once.
C9_FailureLeavesNothing ==
    (extract_status = "raised" /\ exc # "ZeroDivisionError") =>
        /\ frame_file = None
        /\ open_calls <= 1
        /\ \A i, j \in 1..Len(read_log) : i # j => read_log[i] # read_log[j]
        /\ read_calls <= Len(video_frames) + 1

\* Three gray frames were each read once and scored, and the call failed.
C9_Witness ==
    /\ extract_status = "raised"
    /\ exc = "ValueError: Could not extract any frame from video"
    /\ read_log = <<0, 1, 2>>
    /\ scored = {0, 1, 2}
    /\ open_calls = 1

\* One of the two scripts is running (not a direct call of the extractor).
ScriptRun == mode \in {"video", "image"}

ImageSuccessAfterRetries ==
    /\ mode = "image"
    /\ pc = "exit"
    /\ Len(stdout) = 1
    /\ requests = <<"upload", "upload", "upload", "detect", "moderate", "analyze">>
    /\ stdout[1].success

\* The position of a remote step in the order upload, detect, moderate,
\* analyze.
StepRank(step) ==
    CASE step = "upload" -> 1
      [] step = "detect" -> 2
      [] step = "moderate" -> 3
      [] step = "analyze" -> 4

\* The number of requests of one remote step so far.
Count(step) == Cardinality({i \in DOMAIN requests : requests[i] = step})

\* Claim C11: the remote steps of check_image are requested in the order
\* upload, detect, moderate, analyze; detection is requested only after an
\* upload that returned success, moderation and analysis only after a
\* detection that returned success.
C11_StepsInOrder ==
    /\ \A i, j \in DOMAIN requests :
          i < j => StepRank(requests[i]) <= StepRank(requests[j])
    /\ Count("detect") > 0 =>
          /\ upload_result # None
          /\ upload_result.success
          /\ \E i \in DOMAIN requests :
                requests[i] = "upload" /\ returns[i] = upload_result
    /\ Count("moderate") + Count("analyze") > 0 =>
          /\ detection_result # None
          /\ detection_result.success
          /\ \E i \in DOMAIN requests :
                requests[i] = "detect" /\ returns[i] = detection_result

\* All four steps were requested, once each, and check_image has returned.
C11_Witness ==
    /\ mode = "image"
    /\ pc = "exit"
    /\ requests = <<"upload", "detect", "moderate", "analyze">>
    /\ returns[1].success /\ returns[2].success

\* The scheduling of the scripts: single-threaded and synchronous, so a step
\* that can be taken is taken.
FairSpec == Spec /\ WF_vars(Next)

\* The scan loop was entered and has been left.
LoopExited == open_calls > 0 /\ video_openable /\ pc # "extract_loop"

\* The frames are pulled once each, in increasing order from 0; the frame
\* counter follows the successful reads; the loop is left at the first failed
\* read, with every frame pulled.
ScanLoopInOrder ==
    /\ Len(read_log) = cap_pos
    /\ \A i \in DOMAIN read_log : read_log[i] = i - 1
    /\ pc = "extract_loop" => frame_idx = Len(read_log)
    /\ LoopExited =>
          /\ Len(read_log) = Len(video_frames)
          /\ read_calls = Len(read_log) + 1
          /\ frame_idx = Len(read_log)

\* Claim C12, as stated: for every finite stream the scan loop terminates,
\* having pulled every frame exactly once in increasing index order from 0
\* and stopped at the first failed read; at loop exit the frame counter equals
\* the number of frames read.
C12_ScanLoopEveryCall ==
    /\ [] ScanLoopInOrder
    /\ (pc = "extract_loop") ~> (pc # "extract_loop")

\* Claim C12, amended: the same for every call with sample_rate >= 1.
C12_ScanLoop ==
    /\ [] (sample_rate >= 1 => ScanLoopInOrder)
    /\ (pc = "extract_loop") ~> (pc # "extract_loop")

\* The loop was left after three frames, the middle one not sampled.
C12_Witness ==
    /\ LoopExited
    /\ sample_rate = 2
    /\ read_log = <<0, 1, 2>>
    /\ read_calls = 4
    /\ frame_idx = 3
    /\ scored = {0, 2}

\* The steps that check_image wraps in _retry_request.
Retried == {"upload", "detect"}

\* Request number i was answered with a result that reports success.
Succeeded(i) == returns[i] # Raised /\ returns[i].success

\* Claim C13: _retry_request invokes the wrapped function at least once and at
\* most max_retries times, and never again after an attempt whose result
\* reports success; so one check_image issues at most max_retries upload and
\* at most max_retries detect requests.
C13_AttemptsBounded ==
    /\ \A step \in Retried : Count(step) <= max_retries
    /\ upload_result # None => Count("upload") >= 1
    /\ detection_result # None => Count("detect") >= 1
    /\ \A i, j \in DOMAIN requests :
          (i < j /\ requests[i] \in Retried /\ requests[i] = requests[j])
             => ~Succeeded(i)

\* Upload and detect both took max_retries attempts and succeeded at the last.
C13_Witness ==
    /\ mode = "image"
    /\ pc = "exit"
    /\ Count("upload") = max_retries
    /\ Count("detect") = max_retries
    /\ Succeeded(max_retries)
    /\ Succeeded(2 * max_retries)
    /\ result.success

\* The waits of _retry_request(step) so far, in order.
BackoffsOf(step) ==
    SelectSeq(sleeps, LAMBDA e : e.kind = "backoff" /\ e.step = step)

\* _retry_request(step) has returned.
StepReturned(step) ==
    IF step = "upload" THEN upload_result # None ELSE detection_result # None

\* Claim C14: the wait after failed attempt k (0-based, not the last) is
\* retry_delay * 2^k seconds plus a jitter of 0.5 to 2.0 seconds, whether the
\* attempt failed by its result or by an exception; successive waits strictly
\* increase; nothing is waited after the final attempt or after a success.
\* Times are in tenths of a second.
C14_Backoff ==
    \A step \in Retried :
        LET w == BackoffsOf(step)
        IN  /\ \A n \in DOMAIN w :
                  /\ w[n].t - retry_delay * 10 * Pow2(n - 1) \in 5..20
                  /\ n > 1 => w[n - 1].t < w[n].t
            /\ Len(w) = IF StepReturned(step) THEN Count(step) - 1
                        ELSE Count(step)
            /\ Len(w) <= max_retries - 1

\* The upload failed by an exception, then by its result, then succeeded: two
\* waits, on bases of 2 and 4 seconds.
C14_Witness ==
    /\ Count("upload") = 3
    /\ returns[1] = Raised
    /\ returns[2] # Raised /\ ~returns[2].success
    /\ Succeeded(3)
    /\ BackoffsOf("upload") = <<Backoff("upload", 40), Backoff("upload", 45)>>
    /\ pc = "exit"

\* What _retry_request(step) returned.
ReturnedBy(step) ==
    IF step = "upload" THEN upload_result ELSE detection_result

\* The last request of a step.
LastOf(step) ==
    CHOOSE i \in DOMAIN requests :
        /\ requests[i] = step
        /\ \A j \in DOMAIN requests : requests[j] = step => j <= i

\* Claim C15: _retry_request always returns a result to its caller: the result
\* of the first successful attempt if there is one, otherwise the last
\* attempt's own unsuccessful result, or a failure carrying the exception text
\* if the last attempt raised; the return after the loop is never reached.
C15_AlwaysAResult ==
    \A step \in Retried :
        /\ Count(step) = max_retries => StepReturned(step)
        /\ StepReturned(step) =>
              LET n == LastOf(step)
                  r == ReturnedBy(step)
              IN  /\ Count(step) >= 1
                  /\ r # Failure("Max retries exceeded")
                  /\ IF Succeeded(n)
                     THEN /\ r = returns[n]
                          /\ \A i \in DOMAIN requests :
                                (requests[i] = step /\ Succeeded(i)) => i = n
                     ELSE /\ Count(step) = max_retries
                          /\ ~r.success
                          /\ r = IF returns[n] = Raised
                                 THEN Failure("exception text")
                                 ELSE returns[n]

\* Every upload attempt raised, and check_image reported the failure.
C15_Witness ==
    /\ mode = "image"
    /\ pc = "exit"
    /\ requests = <<"upload", "upload", "upload">>
    /\ returns = <<Raised, Raised, Raised>>
    /\ upload_result = Failure("exception text")
    /\ result = Failure("Image upload failed")

\* check_image has returned after a detection that ended successful (the
\* upload before it, then, ended successful too).
ReturnedAfterDetection ==
    /\ mode = "image"
    /\ result # None
    /\ detection_result # None
    /\ detection_result.success

\* The successful detection answer has the shape the later code reads:
\* 'details' is a dict and 'score' a number.
PayloadWellFormed ==
    detection_result.details_ok /\ detection_result.score_ok

\* Moderation and analysis were each requested once, the result reports
\* success whatever they answered, and a failed one is replaced by its
\* default.
NonCriticalSteps ==
    /\ result.success
    /\ Count("moderate") = 1
    /\ Count("analyze") = 1
    /\ moderation_result =
          IF returns[LastOf("moderate")].answered
          THEN [response |-> TRUE] ELSE [safe |-> TRUE]
    /\ analysis_result =
          IF returns[LastOf("analyze")].answered
          THEN [response |-> TRUE] ELSE [empty |-> TRUE]
    /\ result.analysis = analysis_result

\* Claim C16, as stated: once upload and detect have both ended successful,
\* check_image returns success = true whatever moderate and analyze do, each
\* being attempted exactly once; a failed moderate becomes {safe: true}, a
\* failed analyze an empty analysis.
C16_NonCritical ==
    /\ Count("moderate") <= 1 /\ Count("analyze") <= 1
    /\ ReturnedAfterDetection => NonCriticalSteps

\* Claim C16, amended: the same when the successful detection answer is
\* well-formed.
C16_NonCriticalWellFormed ==
    /\ Count("moderate") <= 1 /\ Count("analyze") <= 1
    /\ (ReturnedAfterDetection /\ PayloadWellFormed) => NonCriticalSteps

\* Both non-critical steps failed after a successful, well-formed detection,
\* and check_image returned success with the defaults.
C16_Witness ==
    /\ ReturnedAfterDetection
    /\ PayloadWellFormed
    /\ ~returns[LastOf("moderate")].answered
    /\ ~returns[LastOf("analyze")].answered
    /\ result = [success |-> TRUE, analysis |-> [empty |-> TRUE]]
    /\ moderation_result = [safe |-> TRUE]

\* _wait_for_results has returned from its final parse, which read the page.
ParsedPage == mode = "video" /\ page # None /\ page # Unreadable

\* Claim C17: _wait_for_results never returns success = true while the page
\* read at the final parse contains "Analyzing...": it then returns
\* success = false, the error "Analysis timeout - still processing" and every
\* result field null; success = true needs a parsed verdict or AI percentage.
C17_NoSuccessWhileAnalyzing ==
    /\ (ParsedPage /\ page.analyzing) =>
          result = [EmptyResult EXCEPT
                       !.error = Some("Analysis timeout - still processing")]
    /\ (mode = "video" /\ result # None /\ result.success) =>
          /\ ParsedPage
          /\ ~page.analyzing
          /\ result.verdict # None \/ result.ai_percentage # None

\* The final parse read a page that still says "Analyzing..." although it
\* shows a probability and a classification, and reported the timeout.
C17_Witness ==
    /\ ParsedPage
    /\ page.analyzing
    /\ page.probability = Some(87)
    /\ page.classification = Some("Fake")
    /\ ~result.success
    /\ result.error = Some("Analysis timeout - still processing")
    /\ result.ai_percentage = None

\* The polling loop is running or has just been left.
Polling == pc \in {"det_wait", "det_parse"}

\* The loop makes at most wait_time passes; it is left before the bound only
\* by the first pass that finds the browser unresponsive or the page not
\* analyzing with complete results; a pass that sees an in-progress marker,
\* or raises while reading the page, is followed by another pass unless it was
\* the last.
PollingLoopBounded ==
    /\ polls <= wait_time
    /\ (pc = "det_wait" /\ polls > 0) =>
          /\ polls < wait_time
          /\ last_poll.outcome # "dead"
          /\ last_poll.marker \/ ~last_poll.complete
    /\ (pc = "det_parse" /\ polls < wait_time) =>
          \/ last_poll.outcome = "dead"
          \/ ~last_poll.marker /\ last_poll.complete
    /\ (Polling /\ (last_poll.marker \/ last_poll.outcome = "raised")) =>
          pc = "det_wait" \/ polls = wait_time
    /\ results_found <=> (Polling /\ ~last_poll.marker /\ last_poll.complete)

\* _wait_for_results has ended.
WaitEnded == pc = "det_finally" /\ last_poll # NoPoll

\* Claim C18: the polling loop of _wait_for_results ends after at most
\* wait_time polls, early only at the first poll that finds the page not
\* analyzing with complete results or the browser unresponsive, polling on
\* while a marker shows or a poll raises; _wait_for_results always returns a
\* result dict and never raises.
C18_PollingLoop ==
    /\ PollingLoopBounded
    /\ WaitEnded =>
          /\ last_poll.outcome # "propagated"
          /\ DOMAIN result = DOMAIN EmptyResult

\* The loop ran to its bound on a page that kept showing a marker.
PolledToTheBound ==
    /\ pc = "det_parse"
    /\ polls = wait_time
    /\ last_poll.outcome = "analyzing"
    /\ ~results_found

\* The page shows one of the markers the polling loop takes for analysis in
\* progress: "Analyzing..." or "Inspecting Pixels".
ShowsMarker(pg) == pg.analyzing \/ pg.inspecting

\* Claim C19: the loop and the final parse of _wait_for_results agree on what
\* still analyzing means: success = true is never returned while the page
\* read by the final parse shows "Analyzing..." or "Inspecting Pixels".
C19_MarkersAgree ==
    (mode = "video" /\ result # None /\ result.success) =>
        ParsedPage /\ ~ShowsMarker(page)

\* detector.check_image has returned to the script.
DetectorReturned ==
    /\ mode = "video"
    /\ result # None
    /\ pc \in {"main_cleanup", "main_print", "exit"}

\* Claim C20: on every path of TruthScanDetector.check_image on which a
\* driver was created, the driver is quit exactly once before check_image
\* returns; check_image does not raise: what it returns on an exception is a
\* dict with success = false and the error text.
C20_DriverQuitOnce ==
    /\ quit_calls = IF driver = "quit" THEN 1 ELSE 0
    /\ DetectorReturned =>
          /\ driver \in {"none", "quit"}
          /\ \/ DOMAIN result = DOMAIN EmptyResult
             \/ DOMAIN result = DOMAIN Failure("") /\ ~result.success

\* The driver was created, the rest of the setup raised, and check_image
\* returned the failure with the driver quit.
C20_Witness ==
    /\ DetectorReturned
    /\ result = Failure("Browser initialization failed")
    /\ driver = "quit"
    /\ quit_calls = 1

\* TruthScanDirectAPI.check_image was entered with a path at which there is
\* no file.
ApiImageMissing == mode = "image" /\ argv_given /\ ~image_exists

\* TruthScanDetector.check_image was entered with a path at which there is no
\* file.
DetectorImageMissing == mode = "detect" /\ frame_file = None

\* Claim C21: with an image path that does not exist, check_image of both
\* variants returns success = false with an 'Image not found' error and has
\* no outward effect: the API variant issues no request, the browser variant
\* starts no driver.
C21_MissingImageNoEffect ==
    /\ ApiImageMissing =>
          /\ requests = <<>> /\ returns = <<>> /\ sleeps = <<>>
          /\ pc \in {"main_args", "api_exists"} \/ result = Failure("Image not found")
    /\ DetectorImageMissing =>
          /\ driver = "none" /\ quit_calls = 0
          /\ page = None /\ polls = 0 /\ last_poll = NoPoll
          /\ pc = "det_exists" \/ (pc = "done" /\ result = Failure("Image not found"))

\* The browser variant has returned 'Image not found' without a driver.
C21_Witness ==
    /\ DetectorImageMissing
    /\ pc = "done"
    /\ result = Failure("Image not found")
    /\ driver = "none"

\* The API variant has returned 'Image not found' without a request, and the
\* script has printed it.
ApiImageNotFound ==
    /\ ApiImageMissing
    /\ pc = "exit"
    /\ stdout = <<Failure("Image not found")>>
    /\ requests = <<>>

\* The video script has ended.
ScriptEnded == mode = "video" /\ pc = "exit"

\* Claim C22: a run of the video script cleans up on every exit path: when the
\* process has ended, by success, detector failure or extraction failure,
\* neither the extracted frame file nor a temp_frames directory created by
\* this run is left on disk.
C22_NothingLeftBehind ==
    ScriptEnded => frame_file = None /\ temp_dir # "created"

\* The exits through the cleanup, after detector.check_image has returned
\* with a success or a failure, leave nothing behind.
CleanAfterDetector ==
    (ScriptEnded /\ exit_code = "0") => frame_file = None /\ temp_dir # "created"

====
